---------------------------- MODULE Spec2Model ----------------------------
(***************************************************************************)
(* A model of the F1 scraping pipeline: the SQLite store of               *)
(* src/src/database/__init__.py, the fetcher and text helpers of          *)
(* src/src/scrapers/__init__.py and the batch operations of               *)
(* src/src/scrapers/drivers_scraper.py and races_scraper.py.              *)
(*                                                                         *)
(* Text is a sequence of one-character strings.  An Optional value is a   *)
(* sequence of length at most one: None is << >>, a value v is << v >>.   *)
(***************************************************************************)
EXTENDS Integers, Sequences, FiniteSets, TLC

(***************************************************************************)
(* Bounds of the model.                                                    *)
(***************************************************************************)
\* rows ever inserted in the store by one run of the model
MaxInserts == 2
\* clock ticks
MaxTime == 1

(***************************************************************************)
(* Optional values.                                                        *)
(***************************************************************************)
None == << >>

Some(v) == << v >>

\* Python's `x or 0` on an Optional[int]
OrZero(o) == IF o = None THEN 0 ELSE o[1]

(***************************************************************************)
(* Text values used as inputs.                                             *)
(***************************************************************************)
MaxDriver == << "M", "a", "x", " ", "D", "r", "i", "v", "e", "r" >>

LandoDriver == << "L", "a", "n", "d", "o" >>

RedTeam == << "R", "e", "d", " ", "T", "e", "a", "m" >>

BlueTeam == << "B", "l", "u", "e" >>

Dutch == << "N", "L" >>

MonacoGP == << "M", "o", "n", "a", "c", "o" >>

Monaco == << "M", "C" >>

Empty == << >>

DriverNames == { MaxDriver, LandoDriver }

TeamNames == { RedTeam, BlueTeam }

Nationalities == { Empty, Dutch }

Seasons == { 2024, 2025 }

(***************************************************************************)
(* The Driver dataclass, reduced to the fields insert_driver stores.       *)
(***************************************************************************)
Driver(name, nationality, team, points) ==
    [ name |-> name, nationality |-> nationality, team |-> team, points |-> points ]

DriverInputs ==
    { Driver(n, c, tp[1], tp[2]) :
        n \in DriverNames, c \in Nationalities,
        tp \in { << Empty, 0 >>, << RedTeam, 25 >> } }

\* The arguments of insert_race(season, round_number, race_name, circuit_name,
\* country, date); circuit_name and date keep their default "".
RaceArgs(season, round_number, race_name, country) ==
    [ season |-> season, round_number |-> round_number, race_name |-> race_name,
      circuit_name |-> Empty, country |-> country, date |-> Empty ]

RaceInputs ==
    { RaceArgs(s, r, MonacoGP, c) : s \in Seasons, r \in { 1 }, c \in { Empty, Monaco } }

VARIABLES
    drivers,    \* rows of table drivers
    teams,      \* rows of table teams
    races,      \* rows of table races
    seq,        \* sqlite_sequence: the largest rowid ever used, per table
    now,        \* the clock read by datetime.now() and CURRENT_TIMESTAMP
    call,       \* the last DatabaseManager operation: its name, argument and outcome
    gp,         \* BaseScraper.get_page: its position, arguments, loop variable and log
    sc,         \* the batch operation of a scraper: its position, input and output
    fn,         \* the last call of a helper function: its name, argument and result
    conn        \* DatabaseManager.get_connection: the operation using it and its position

dbvars == << drivers, teams, races, seq, now, call >>

vars == << drivers, teams, races, seq, now, call, gp, sc, fn, conn >>

GpIdle ==
    [ pc |-> "idle", retries |-> 0, attempt |-> 0, log |-> << >>, result |-> "pending",
      since |-> << >> ]

ScIdle ==
    [ pc |-> "idle", op |-> "none", season |-> 0, items |-> << >>, i |-> 0,
      out |-> << >>, trace |-> << >>, raised |-> FALSE, store0 |-> << >> ]

FnIdle == [ op |-> "none", arg |-> << >>, ret |-> << >> ]

\* no operation in progress; open counts the connections not yet closed
ConnIdle ==
    [ pc |-> "idle", op |-> "none", opened |-> FALSE, raised |-> FALSE, open |-> 0,
      calls |-> 0 ]

(***************************************************************************)
(* The schema made by _create_tables.                                      *)
(***************************************************************************)
Tables == { "drivers", "teams", "races" }

DriverKey(r) == << r.name, r.nationality >>

RaceKey(r) == << r.season, r.round_number >>

\* AUTOINCREMENT: one more than the largest rowid the table ever held
NextRowId(s) == s + 1

(***************************************************************************)
(* INSERT OR REPLACE INTO drivers (name, nationality, team, points,        *)
(* updated_at): rows that conflict on UNIQUE(name, nationality) are        *)
(* deleted, then the new row is inserted with a fresh driver_id and        *)
(* created_at taking its default CURRENT_TIMESTAMP.                        *)
(***************************************************************************)
DriverConflicts(tbl, d) == { r \in tbl : DriverKey(r) = DriverKey(d) }

DriverRow(id, d, t) ==
    [ driver_id |-> id, name |-> d.name, nationality |-> d.nationality,
      team |-> d.team, points |-> d.points, created_at |-> t, updated_at |-> t ]

\* a plain INSERT: the conflicting rows stay
InsertDriverKeepConflicts(tbl, id, d, t) == tbl \cup { DriverRow(id, d, t) }

\* an upsert that merges: a default in the new value keeps the stored value
InsertDriverMerge(tbl, id, d, t) ==
    LET old == DriverConflicts(tbl, d)
        keep(f, dflt) == IF d[f] = dflt /\ old # {}
                         THEN (CHOOSE r \in old : TRUE)[f] ELSE d[f]
        m == [ d EXCEPT !.team = keep("team", Empty), !.points = keep("points", 0) ]
    IN  (tbl \ old) \cup { DriverRow(id, m, t) }

InsertOrReplaceDriver(tbl, id, d, t) ==
    (tbl \ DriverConflicts(tbl, d)) \cup { DriverRow(id, d, t) }

RaceConflicts(tbl, a) == { r \in tbl : RaceKey(r) = RaceKey(a) }

RaceRow(id, a, t) ==
    [ race_id |-> id, season |-> a.season, round_number |-> a.round_number,
      race_name |-> a.race_name, circuit_name |-> a.circuit_name,
      country |-> a.country, date |-> a.date, created_at |-> t, updated_at |-> t ]

InsertOrReplaceRace(tbl, id, a, t) ==
    (tbl \ RaceConflicts(tbl, a)) \cup { RaceRow(id, a, t) }

(***************************************************************************)
(* The record of a call: op, the argument, whether it raised, the value    *)
(* returned, the clock at the call and the rows the call replaced.         *)
(***************************************************************************)
Call(op, arg, raised, ret, replaced) ==
    [ op |-> op, arg |-> arg, raised |-> raised, ret |-> ret, at |-> now,
      replaced |-> replaced ]

NoCall == [ op |-> "none", arg |-> None, raised |-> FALSE, ret |-> None, at |-> 0,
            replaced |-> {} ]

\* rows the model's operations have inserted
Inserted == seq.drivers + seq.races

(***************************************************************************)
(* DatabaseManager.insert_driver.  sqlite3 may raise (locked or            *)
(* unavailable store); then nothing is committed.                          *)
(***************************************************************************)
insert_driver ==
    /\ Inserted < MaxInserts
    /\ \E d \in DriverInputs, fault \in BOOLEAN :
         IF fault
         THEN /\ call' = Call("insert_driver", d, TRUE, None, {})
              /\ UNCHANGED << drivers, seq >>
         ELSE LET id == NextRowId(seq.drivers) IN
              /\ drivers' = InsertOrReplaceDriver(drivers, id, d, now)
              /\ seq' = [ seq EXCEPT !.drivers = id ]
              /\ call' = Call("insert_driver", d, FALSE, Some(id),
                              DriverConflicts(drivers, d))
    /\ UNCHANGED << teams, races, now, gp, sc, fn, conn >>

(***************************************************************************)
(* DatabaseManager.insert_race, called with its declared arguments.        *)
(***************************************************************************)
insert_race ==
    /\ Inserted < MaxInserts
    /\ \E a \in RaceInputs, fault \in BOOLEAN :
         IF fault
         THEN /\ call' = Call("insert_race", a, TRUE, None, {})
              /\ UNCHANGED << races, seq >>
         ELSE LET id == NextRowId(seq.races) IN
              /\ races' = InsertOrReplaceRace(races, id, a, now)
              /\ seq' = [ seq EXCEPT !.races = id ]
              /\ call' = Call("insert_race", a, FALSE, Some(id),
                              RaceConflicts(races, a))
    /\ UNCHANGED << drivers, teams, now, gp, sc, fn, conn >>

\* the clock advances between operations
Tick ==
    /\ now < MaxTime
    /\ now' = now + 1
    /\ UNCHANGED << drivers, teams, races, seq, call, gp, sc, fn, conn >>

(***************************************************************************)
(* Read queries.  fetchone() on a query without ORDER BY returns any of    *)
(* the matching rows; ORDER BY leaves the order of ties open.              *)
(***************************************************************************)
FetchOne(rows) == IF rows = {} THEN { None } ELSE { Some(r) : r \in rows }

\* ORDER BY column [DESC]: the lists holding each row of S once, in an order
\* the sort allows
FetchAll(S, column, dir) ==
    { s \in [ 1 .. Cardinality(S) -> S ] :
        \A i, j \in 1 .. Cardinality(S) :
            i < j => /\ s[i] # s[j]
                     /\ IF dir = "DESC" THEN s[i][column] >= s[j][column]
                        ELSE s[i][column] <= s[j][column] }

\* SELECT * FROM drivers WHERE name = ?
SelectDriverByName(tbl, name) == { r \in tbl : r.name = name }

\* SELECT * FROM teams WHERE name = ?
SelectTeamByName(tbl, name) == { r \in tbl : r.name = name }

TeamRow(id, name, points, t) ==
    [ team_id |-> id, name |-> name, points |-> points, created_at |-> t,
      updated_at |-> t ]

\* a lookup that stores a row for a name it does not find (get-or-create)
get_driver_by_name_or_create ==
    /\ \E name \in DriverNames :
         IF SelectDriverByName(drivers, name) = {} /\ Inserted < MaxInserts
         THEN LET id == NextRowId(seq.drivers)
                  d == Driver(name, Empty, Empty, 0) IN
              /\ drivers' = InsertOrReplaceDriver(drivers, id, d, now)
              /\ seq' = [ seq EXCEPT !.drivers = id ]
              /\ call' = Call("get_driver_by_name", name, FALSE,
                              Some(DriverRow(id, d, now)), {})
         ELSE /\ \E ret \in FetchOne(SelectDriverByName(drivers, name)) :
                   call' = Call("get_driver_by_name", name, FALSE, ret, {})
              /\ UNCHANGED << drivers, seq >>
    /\ UNCHANGED << teams, races, now, gp, sc, fn, conn >>

get_driver_by_name ==
    /\ \E name \in DriverNames :
         \E ret \in FetchOne(SelectDriverByName(drivers, name)) :
            call' = Call("get_driver_by_name", name, FALSE, ret, {})
    /\ UNCHANGED << drivers, teams, races, seq, now, gp, sc, fn, conn >>

get_team_by_name ==
    /\ \E name \in TeamNames :
         \E ret \in FetchOne(SelectTeamByName(teams, name)) :
            call' = Call("get_team_by_name", name, FALSE, ret, {})
    /\ UNCHANGED << drivers, teams, races, seq, now, gp, sc, fn, conn >>

get_all_drivers ==
    /\ \E ret \in FetchAll(drivers, "points", "DESC") :
         call' = Call("get_all_drivers", None, FALSE, ret, {})
    /\ UNCHANGED << drivers, teams, races, seq, now, gp, sc, fn, conn >>

get_all_teams ==
    /\ \E ret \in FetchAll(teams, "points", "DESC") :
         call' = Call("get_all_teams", None, FALSE, ret, {})
    /\ UNCHANGED << drivers, teams, races, seq, now, gp, sc, fn, conn >>

get_races_by_season ==
    /\ \E season \in Seasons :
         \E ret \in FetchAll({ r \in races : r.season = season }, "round_number", "ASC") :
            call' = Call("get_races_by_season", season, FALSE, ret, {})
    /\ UNCHANGED << drivers, teams, races, seq, now, gp, sc, fn, conn >>

\* The query names table standings, which _create_tables does not make:
\* execute() raises sqlite3.OperationalError.
get_current_standings ==
    /\ "standings" \notin Tables
    /\ \E season \in Seasons :
         call' = Call("get_current_standings", season, TRUE, None, {})
    /\ UNCHANGED << drivers, teams, races, seq, now, gp, sc, fn, conn >>

LookupOps ==
    { "get_driver_by_name", "get_team_by_name", "get_all_drivers", "get_all_teams",
      "get_races_by_season", "get_current_standings" }

(***************************************************************************)
(* The store after DatabaseManager(db_path): the three tables exist        *)
(* (CREATE TABLE IF NOT EXISTS).  The file may be older than the run: the  *)
(* teams table, which no operation of the model fills, may hold rows.      *)
(***************************************************************************)
SeededTeams == { TeamRow(1, RedTeam, 0, 0) }

InitDB ==
    /\ drivers = {}
    /\ races = {}
    /\ teams \in { {}, SeededTeams }
    /\ seq = [ drivers |-> 0, teams |-> Cardinality(teams), races |-> 0 ]
    /\ now = 0
    /\ call = NoCall
    /\ gp = GpIdle
    /\ sc = ScIdle
    /\ fn = FnIdle
    /\ conn = ConnIdle

NextDB ==
    \/ insert_driver
    \/ insert_race
    \/ get_driver_by_name
    \/ get_team_by_name
    \/ get_all_drivers
    \/ get_all_teams
    \/ get_races_by_season
    \/ get_current_standings
    \/ Tick

SpecDB == InitDB /\ [][NextDB]_vars

(***************************************************************************)
(* C1.  After any sequence of insert_driver and insert_race calls the      *)
(* store holds at most one row per natural key; after an upsert there is   *)
(* exactly one row under the upserted key, its updated_at is the time of   *)
(* that upsert and is not earlier than the updated_at of the row it        *)
(* replaced.                                                               *)
(***************************************************************************)
UniqueKeys ==
    /\ \A r1, r2 \in drivers : DriverKey(r1) = DriverKey(r2) => r1 = r2
    /\ \A r1, r2 \in races : RaceKey(r1) = RaceKey(r2) => r1 = r2

UpsertedRows ==
    IF call.op = "insert_driver" THEN DriverConflicts(drivers, call.arg)
    ELSE IF call.op = "insert_race" THEN RaceConflicts(races, call.arg)
    ELSE {}

C1_UpsertIdempotent ==
    /\ UniqueKeys
    /\ call.op \in { "insert_driver", "insert_race" } /\ ~call.raised =>
         /\ Cardinality(UpsertedRows) = 1
         /\ \A r \in UpsertedRows :
              /\ r.updated_at = call.at
              /\ \A o \in call.replaced : o.updated_at <= r.updated_at

\* the same driver value was upserted a second time, later than the first
C1_Witness ==
    /\ call.op = "insert_driver" /\ ~call.raised
    /\ \E o \in call.replaced :
         /\ o.team = call.arg.team /\ o.points = call.arg.points
         /\ o.updated_at < call.at
    /\ Cardinality(DriverConflicts(drivers, call.arg)) = 1

(***************************************************************************)
(* C2.  After insert_driver(d) on a key that already has a row, the        *)
(* stored team and points are d's, also when d's are the defaults and the  *)
(* replaced row's were not: nothing is merged from the prior row.          *)
(***************************************************************************)
C2_LastWriteWins ==
    call.op = "insert_driver" /\ ~call.raised /\ call.replaced # {} =>
        \A r \in DriverConflicts(drivers, call.arg) :
            r.team = call.arg.team /\ r.points = call.arg.points

\* a default value overwrote a populated one
C2_Witness ==
    /\ call.op = "insert_driver" /\ ~call.raised
    /\ call.arg.team = Empty /\ call.arg.points = 0
    /\ \E o \in call.replaced : o.team = RedTeam /\ o.points = 25
    /\ \E r \in drivers : DriverKey(r) = DriverKey(call.arg) /\ r.team = Empty /\ r.points = 0

(***************************************************************************)
(* C3.  A step of one of the lookup operations leaves every table (and     *)
(* the rowid sequences) as it was, whether or not the lookup finds a row.  *)
(***************************************************************************)
C3_LookupsReadOnly ==
    [][ call'.op \in LookupOps => UNCHANGED << drivers, teams, races, seq >> ]_vars

\* a lookup that found no match, in a store that holds rows
C3_Witness ==
    /\ call.op = "get_driver_by_name" /\ call.ret = None
    /\ drivers # {} /\ races # {}

(***************************************************************************)
(* BaseScraper.get_page(url, retries).  The log holds, in order, every     *)
(* GET the call issued with its outcome and every time.sleep it made.      *)
(***************************************************************************)
\* the largest retries argument tried
MaxRetries == 4

\* BaseScraper.__init__: delay = 1.0 seconds
Delay == 1

\* outcomes of session.get followed by raise_for_status: a 2xx response, or a
\* requests.RequestException (Timeout, ConnectionError, HTTPError)
Responses == { "ok", "timeout", "connection_error", "http_error" }

Get(r) == [ ev |-> "GET", response |-> r, secs |-> 0 ]

Sleep(n) == [ ev |-> "sleep", response |-> "", secs |-> n ]

\* a backoff that grows linearly with the attempt number
BackoffLinear(k) == 2 * k

\* 2 ** attempt
Pow2(k) == 2 ^ k

\* a success that does not return: the loop goes on to the next attempt
AfterResponseNoReturn(g, r) ==
    IF r # "ok" /\ g.attempt = g.retries - 1
    THEN [ g EXCEPT !.log = Append(@, Get(r)), !.result = "None", !.pc = "done" ]
    ELSE LET sl == IF r = "ok" THEN Sleep(Delay) ELSE Sleep(Pow2(g.attempt))
             g2 == [ g EXCEPT !.log = @ \o << Get(r), sl >>, !.attempt = @ + 1 ]
         IN  IF g2.attempt < g2.retries THEN g2
             ELSE [ g2 EXCEPT !.result = "None", !.pc = "done" ]

\* one iteration of `for attempt in range(retries)`, given the response
AfterResponse(g, r) ==
    IF r = "ok"
    THEN [ g EXCEPT !.log = @ \o << Get(r), Sleep(Delay) >>,
                    !.result = "soup", !.pc = "done" ]
    ELSE IF g.attempt = g.retries - 1
    THEN [ g EXCEPT !.log = Append(@, Get(r)), !.result = "None", !.pc = "done" ]
    ELSE LET g2 == [ g EXCEPT !.log = @ \o << Get(r), Sleep(Pow2(g.attempt)) >>,
                              !.attempt = @ + 1 ]
         IN  \* the range is exhausted: the return None that follows the loop
             IF g2.attempt < g2.retries THEN g2
             ELSE [ g2 EXCEPT !.result = "None", !.pc = "done" ]

\* the call: range(retries) is empty for retries = 0 and None is returned
get_page_call ==
    /\ gp.pc = "idle"
    /\ \E n \in 0 .. MaxRetries :
         gp' = [ pc |-> IF n = 0 THEN "done" ELSE "attempt", retries |-> n,
                 attempt |-> 0, log |-> << >>,
                 result |-> IF n = 0 THEN "None" ELSE "pending",
                 since |-> gp.since ]
    /\ UNCHANGED << drivers, teams, races, seq, now, call, sc, fn, conn >>

get_page_attempt ==
    /\ gp.pc = "attempt"
    /\ \E r \in Responses : gp' = AfterResponse(gp, r)
    /\ UNCHANGED << drivers, teams, races, seq, now, call, sc, fn, conn >>

\* the seconds slept after the last GET of a log
RECURSIVE SleptAfterLastGet(_)
SleptAfterLastGet(log) ==
    IF log = << >> \/ log[Len(log)].ev = "GET" THEN 0
    ELSE log[Len(log)].secs + SleptAfterLastGet(SubSeq(log, 1, Len(log) - 1))

\* the seconds the scraper has slept since its last GET, in this call or in
\* an earlier one; << >> while the scraper has issued no GET
SinceLastGet(g) ==
    IF \E i \in 1 .. Len(g.log) : g.log[i].ev = "GET"
    THEN << SleptAfterLastGet(g.log) >>
    ELSE g.since

\* the caller takes the result; the scraper is ready for its next call
get_page_return ==
    /\ gp.pc = "done"
    /\ gp' = [ GpIdle EXCEPT !.since = SinceLastGet(gp) ]
    /\ UNCHANGED << drivers, teams, races, seq, now, call, sc, fn, conn >>

NextFetch ==
    \/ get_page_call
    \/ get_page_attempt
    \/ get_page_return

\* the code is sequential: a started call runs its next attempt
InitFetch == InitDB /\ teams = {}

SpecFetch == InitFetch /\ [][NextFetch]_vars /\ WF_vars(get_page_attempt)

Gets(log) == SelectSeq(log, LAMBDA e : e.ev = "GET")

(***************************************************************************)
(* C10.  get_page(url, retries = n) issues at most n GETs; it returns the  *)
(* document at the first successful attempt and issues no request after    *)
(* it; it returns None, raising nothing, when all n attempts fail with a   *)
(* transport error; and every call returns.                                *)
(***************************************************************************)
C10_Safe ==
    LET gets == Gets(gp.log)
        k == Len(gets) IN
    /\ k <= gp.retries
    /\ \A i \in 1 .. k - 1 : gets[i].response # "ok"
    /\ gp.pc = "done" =>
         /\ gp.result \in { "soup", "None" }
         /\ gp.result = "soup" <=> (k > 0 /\ gets[k].response = "ok")
         /\ gp.result = "None" =>
              k = gp.retries /\ \A i \in 1 .. k : gets[i].response # "ok"

C10_GetPageBounded == []C10_Safe /\ (gp.pc = "attempt" ~> gp.pc = "done")

\* two transport failures, then a success on the third of three attempts
C10_Witness ==
    /\ gp.pc = "done" /\ gp.retries = 3 /\ gp.result = "soup"
    /\ LET gets == Gets(gp.log) IN
         /\ Len(gets) = 3
         /\ gets[1].response = "timeout" /\ gets[2].response = "http_error"
         /\ gets[3].response = "ok"

(***************************************************************************)
(* C11.  When attempt k (from 0) of get_page fails with a transport error  *)
(* and is not the last allowed attempt, the call sleeps exactly 2^k        *)
(* seconds and then starts attempt k + 1; nothing is slept after the last  *)
(* allowed attempt fails.                                                  *)
(***************************************************************************)
GetsBefore(log, i) == Len(Gets(SubSeq(log, 1, i - 1)))

C11_ExponentialBackoff ==
    \A i \in 1 .. Len(gp.log) :
      (gp.log[i].ev = "GET" /\ gp.log[i].response # "ok") =>
        LET k == GetsBefore(gp.log, i) IN
        IF k < gp.retries - 1
        THEN /\ i < Len(gp.log)
             /\ gp.log[i + 1] = [ ev |-> "sleep", response |-> "", secs |-> 2 ^ k ]
             /\ i + 2 <= Len(gp.log) => gp.log[i + 2].ev = "GET"
        ELSE i = Len(gp.log) /\ gp.pc = "done"

\* four attempts, all failed: waits of 1, 2 and 4 seconds, none after the last
C11_Witness ==
    /\ gp.pc = "done" /\ gp.retries = 4 /\ gp.result = "None"
    /\ gp.log = << Get("timeout"), Sleep(1), Get("timeout"), Sleep(2),
                   Get("http_error"), Sleep(4), Get("connection_error") >>

(***************************************************************************)
(* C12.  Between any GET issued by get_page and the next GET of the same   *)
(* scraper, in the same call or in the next one, at least the configured   *)
(* delay has been slept, whatever the outcome of the first GET.            *)
(***************************************************************************)
IssuesGet == Len(Gets(gp'.log)) > Len(Gets(gp.log))

C12_DelayBetweenGets ==
    [][IssuesGet => (SinceLastGet(gp) = << >> \/ SinceLastGet(gp)[1] >= Delay)]_vars

(***************************************************************************)
(* Text helpers of BaseScraper.                                            *)
(***************************************************************************)
Whitespace == { " ", "\t", "\n" }

DigitChars == { "0", "1", "2", "3", "4", "5", "6", "7", "8", "9" }

\* the characters str.isdigit accepts: the decimal digits and digits that are
\* no decimals, of which "sup2" stands for SUPERSCRIPT TWO (U+00B2)
IsDigitChars == DigitChars \cup { "sup2" }

DigitValue(c) ==
    CASE c = "0" -> 0 [] c = "1" -> 1 [] c = "2" -> 2 [] c = "3" -> 3 [] c = "4" -> 4
      [] c = "5" -> 5 [] c = "6" -> 6 [] c = "7" -> 7 [] c = "8" -> 8 [] c = "9" -> 9

\* int(digits) for a non-empty string of decimal digits
RECURSIVE ToInt(_)
ToInt(digits) ==
    IF digits = << >> THEN 0
    ELSE 10 * ToInt(SubSeq(digits, 1, Len(digits) - 1)) + DigitValue(digits[Len(digits)])

\* str.split(): the maximal runs of non-whitespace characters
RECURSIVE SplitFrom(_, _, _, _)
SplitFrom(text, i, word, acc) ==
    LET flushed == IF word = << >> THEN acc ELSE Append(acc, word) IN
    IF i > Len(text) THEN flushed
    ELSE IF text[i] \in Whitespace THEN SplitFrom(text, i + 1, << >>, flushed)
    ELSE SplitFrom(text, i + 1, Append(word, text[i]), acc)

Split(text) == SplitFrom(text, 1, << >>, << >>)

\* " ".join(words)
RECURSIVE Join(_)
Join(words) ==
    IF words = << >> THEN << >>
    ELSE IF Len(words) = 1 THEN words[1]
    ELSE words[1] \o << " " >> \o Join(Tail(words))

\* str.replace of the two-character string a b by one space
RECURSIVE ReplaceBySpace(_, _, _)
ReplaceBySpace(text, a, b) ==
    IF Len(text) < 2 THEN text
    ELSE IF text[1] = a /\ text[2] = b
    THEN << " " >> \o ReplaceBySpace(SubSeq(text, 3, Len(text)), a, b)
    ELSE << text[1] >> \o ReplaceBySpace(Tail(text), a, b)

\* str.strip()
RECURSIVE Strip(_)
Strip(text) ==
    IF text = << >> THEN text
    ELSE IF text[1] \in Whitespace THEN Strip(Tail(text))
    ELSE IF text[Len(text)] \in Whitespace THEN Strip(SubSeq(text, 1, Len(text) - 1))
    ELSE text

clean_text(text) ==
    IF text = << >> THEN << >>
    ELSE Strip(ReplaceBySpace(ReplaceBySpace(Join(Split(text)), "\\", "n"), "\\", "t"))

\* the text with every digit dropped before the digits are read
parse_number_first_digit(text) ==
    LET digits == SelectSeq(text, LAMBDA c : c \in DigitChars) IN
    IF digits = << >> THEN None ELSE Some(DigitValue(digits[1]))

\* a number that is 0 where the text holds no digit
parse_number_or_zero(text) ==
    LET digits == SelectSeq(text, LAMBDA c : c \in DigitChars) IN
    IF digits = << >> THEN Some(0) ELSE Some(ToInt(digits))

\* ''.join(filter(str.isdigit, text)), then int(digits) if digits else None;
\* int raises ValueError on a digit that is not a decimal, and None is returned
parse_number(text) ==
    IF text = << >> THEN None
    ELSE LET digits == SelectSeq(text, LAMBDA c : c \in IsDigitChars) IN
         IF digits = << >> THEN None
         ELSE IF \E i \in 1 .. Len(digits) : digits[i] \notin DigitChars THEN None
         ELSE Some(ToInt(digits))

\* the index of the first decimal digit of s, 0 when there is none
FirstDigit(s) ==
    IF \E i \in 1 .. Len(s) : s[i] \in DigitChars
    THEN CHOOSE i \in 1 .. Len(s) :
           s[i] \in DigitChars /\ \A h \in 1 .. i - 1 : s[h] \notin DigitChars
    ELSE 0

\* \d+ from index i, greedy: the index of the last digit of the run
RECURSIVE DigitRunEnd(_, _)
DigitRunEnd(s, i) ==
    IF i < Len(s) /\ s[i + 1] \in DigitChars THEN DigitRunEnd(s, i + 1) ELSE i

\* re.search(r'(\d+(?:\.\d+)?)', s).group(1); << >> when nothing matches
FirstDecimal(s) ==
    LET i == FirstDigit(s) IN
    IF i = 0 THEN << >>
    ELSE LET j == DigitRunEnd(s, i)
             k == IF j + 2 <= Len(s) /\ s[j + 1] = "." /\ s[j + 2] \in DigitChars
                  THEN DigitRunEnd(s, j + 2) ELSE j
         IN  SubSeq(s, i, k)

\* float(m) for m matching \d+(\.\d+)?: its whole part and its fraction digits
float(m) ==
    LET dot == IF \E i \in 1 .. Len(m) : m[i] = "."
               THEN CHOOSE i \in 1 .. Len(m) : m[i] = "." ELSE Len(m) + 1 IN
    [ whole |-> ToInt(SubSeq(m, 1, dot - 1)), frac |-> SubSeq(m, dot + 1, Len(m)) ]

\* int(f) of a non-negative float: the fraction is dropped
int(f) == f.whole

\* points read as parse_number reads them: every digit of the text
parse_points_all_digits(points_text) == OrZero(parse_number(points_text))

\* utils.parse_points
parse_points(points_text) ==
    IF points_text = << >> THEN 0
    ELSE LET match == FirstDecimal(Strip(points_text)) IN
         IF match # << >> THEN int(float(match)) ELSE 0

(***************************************************************************)
(* The batch operations of the scrapers.  sc.items is the list the loop    *)
(* runs over, sc.i the index of the next item, sc.out the list the         *)
(* operation returns, sc.raised whether an exception left the operation;   *)
(* sc.trace notes, per item visited, how its iteration ended, and          *)
(* sc.store0 the tables as they were when the operation started.           *)
(***************************************************************************)
\* cards or table rows on one page
MaxItems == 3

\* the lists of at most n elements of S
ListsOf(S, n) == UNION { [ 1 .. k -> S ] : k \in 0 .. n }

Visited(outcome) == [ item |-> sc.i, outcome |-> outcome ]

Begin(op, season, items, first) ==
    [ pc |-> "loop", op |-> op, season |-> season, items |-> items, i |-> first,
      out |-> << >>, trace |-> << >>, raised |-> FALSE,
      store0 |-> << drivers, teams, races >> ]

\* get_page returned None, or the page holds no table: the empty list is returned
ReturnEmpty(op, season) ==
    [ Begin(op, season, << >>, 1) EXCEPT !.pc = "done" ]

\* the iteration of sc.items[sc.i] ended without an exception
Continue(outcome, out) ==
    sc' = [ sc EXCEPT !.i = @ + 1, !.out = out, !.trace = Append(@, Visited(outcome)) ]

\* a handler that logs and raises again
ExceptHandlerReraise == "raise"

\* except Exception as e: self.logger.error(...); continue
ExceptHandler == "continue"

\* the iteration of sc.items[sc.i] raised
Except(outcome, out) ==
    IF ExceptHandler = "continue"
    THEN Continue(outcome, out)
    ELSE sc' = [ sc EXCEPT !.pc = "done", !.raised = TRUE, !.out = out,
                           !.trace = Append(@, Visited(outcome)) ]

(***************************************************************************)
(* DriversScraper.scrape_all_drivers.  A card is what the locators of      *)
(* _extract_driver_from_card find in it: the text of a name-shaped         *)
(* heading, of a span classed name/driver, of a team element (None when    *)
(* there is none), and whether it holds a link.                            *)
(***************************************************************************)
DriverCards ==
    { [ heading |-> Some(MaxDriver), span |-> None, team |-> Some(RedTeam), link |-> TRUE ],
      [ heading |-> None, span |-> Some(<< " " >> \o LandoDriver), team |-> None,
        link |-> FALSE ],
      [ heading |-> None, span |-> None, team |-> None, link |-> FALSE ] }

\* what _get_driver_details fetches: None, or a page with the text beside its
\* Country label, its statistics block (None when no div is classed stats or
\* statistics; else the text of the block's Points entry, None when the
\* block has none) and the text of a Points entry outside any such block
DriverPages ==
    { None,
      Some([ country |-> Some(Dutch),
             stats |-> Some([ points |-> Some(<< "2", "5", " ", "P", "T", "S" >>) ]),
             body |-> None ]),
      Some([ country |-> None, stats |-> None, body |-> None ]),
      Some([ country |-> None, stats |-> None, body |-> Some(<< "1", "8" >>) ]),
      Some([ country |-> None, stats |-> Some([ points |-> None ]),
             body |-> Some(<< "1", "8" >>) ]) }

\* a chain that prefers its fallback locator
LastFound(primary, fallback) == IF fallback # None THEN fallback ELSE primary

\* elem = find(primary); if not elem: elem = find(fallback).  find returns a
\* Tag, which is true whatever its contents, or None
FirstFound(primary, fallback) == IF primary # None THEN primary ELSE fallback

\* cards = find_all(primary); if not cards: cards = find_all(fallback).
\* find_all returns a list, which is false when empty
FirstFoundAll(primary, fallback) == IF primary # << >> THEN primary ELSE fallback

\* a page, as the two card locators see it
CardPages(Cards) ==
    { [ primary |-> c, fallback |-> d ] :
        c \in ListsOf(Cards, MaxItems - 1), d \in ListsOf(Cards, 1) }

_extract_driver_from_card(card) ==
    LET name_elem == FirstFound(card.heading, card.span) IN
    Driver(IF name_elem # None THEN clean_text(name_elem[1]) ELSE Empty,
           Empty,
           IF card.team # None THEN clean_text(card.team[1]) ELSE Empty,
           0)

\* stats_section = soup.find('div', class_=...); if stats_section: ...  The
\* statistics are looked for inside the block, and nowhere when there is none
StatsSection(soup) == soup.stats

_extract_detailed_info(soup, driver) ==
    LET stats_section == StatsSection(soup)
        points_elem == IF stats_section # None THEN stats_section[1].points ELSE None IN
    [ driver EXCEPT
        !.nationality = IF soup.country # None THEN clean_text(soup.country[1]) ELSE @,
        !.points = IF points_elem # None THEN OrZero(parse_number(points_elem[1])) ELSE @ ]

_get_driver_details(card, driver, page) ==
    IF card.link /\ page # None THEN _extract_detailed_info(page[1], driver) ELSE driver

scrape_all_drivers ==
    /\ sc.pc = "idle"
    /\ \E soup \in { None } \cup { Some(c) : c \in CardPages(DriverCards) } :
         sc' = IF soup = None THEN ReturnEmpty("scrape_all_drivers", 0)
               ELSE Begin("scrape_all_drivers", 0,
                          FirstFoundAll(soup[1].primary, soup[1].fallback), 1)
    /\ UNCHANGED << drivers, teams, races, seq, now, call, gp, fn, conn >>

\* an iteration that also stores the team named on the card of the driver it
\* saves
scrape_driver_card_storing_team ==
    /\ sc.pc = "loop" /\ sc.op = "scrape_all_drivers" /\ sc.i <= Len(sc.items)
    /\ \E page \in DriverPages :
         LET card == sc.items[sc.i]
             driver == _extract_driver_from_card(card)
             detailed_driver == _get_driver_details(card, driver, page)
             id == NextRowId(seq.drivers)
             team_id == NextRowId(seq.teams) IN
         IF driver.name = Empty
         THEN Continue("no_name", sc.out) /\ UNCHANGED << drivers, teams, seq >>
         ELSE /\ Continue("saved", Append(sc.out, detailed_driver))
              /\ drivers' = InsertOrReplaceDriver(drivers, id, detailed_driver, now)
              /\ teams' = (teams \ SelectTeamByName(teams, detailed_driver.team))
                             \cup { TeamRow(team_id, detailed_driver.team, 0, now) }
              /\ seq' = [ seq EXCEPT !.drivers = id, !.teams = team_id ]
    /\ UNCHANGED << races, now, call, gp, fn, conn >>

\* one iteration of `for card in driver_cards`
scrape_driver_card ==
    /\ sc.pc = "loop" /\ sc.op = "scrape_all_drivers" /\ sc.i <= Len(sc.items)
    /\ \E exc \in BOOLEAN, page \in DriverPages, fault \in BOOLEAN :
         LET card == sc.items[sc.i]
             driver == _extract_driver_from_card(card)
             detailed_driver == _get_driver_details(card, driver, page)
             id == NextRowId(seq.drivers) IN
         IF exc
         THEN Except("build_raised", sc.out) /\ UNCHANGED << drivers, seq >>
         ELSE IF driver.name = Empty
         THEN Continue("no_name", sc.out) /\ UNCHANGED << drivers, seq >>
         ELSE IF fault
         THEN /\ Except("save_raised", Append(sc.out, detailed_driver))
              /\ UNCHANGED << drivers, seq >>
         ELSE /\ Continue("saved", Append(sc.out, detailed_driver))
              /\ drivers' = InsertOrReplaceDriver(drivers, id, detailed_driver, now)
              /\ seq' = [ seq EXCEPT !.drivers = id ]
    /\ UNCHANGED << teams, races, now, call, gp, fn, conn >>

(***************************************************************************)
(* RacesScraper.scrape_season_races.                                       *)
(***************************************************************************)
Race(season, round_number, race_name, country) ==
    [ season |-> season, round_number |-> round_number, race_name |-> race_name,
      circuit_name |-> Empty, country |-> country, date |-> None ]

RaceCards ==
    { [ heading |-> Some(MonacoGP), span |-> None, country |-> Some(Monaco), link |-> TRUE ],
      [ heading |-> Some(Empty), span |-> Some(MonacoGP), country |-> None, link |-> FALSE ],
      [ heading |-> None, span |-> Some(MonacoGP), country |-> None, link |-> FALSE ] }

\* what _get_race_details fetches: None, or a page with the text beside Circuit
RacePages == { None, Some([ circuit |-> Some(Monaco) ]), Some([ circuit |-> None ]) }

_extract_race_from_card(card, season, round_number) ==
    LET name_elem == FirstFound(card.heading, card.span) IN
    Race(season, round_number,
         IF name_elem # None THEN clean_text(name_elem[1]) ELSE Empty,
         IF card.country # None THEN clean_text(card.country[1]) ELSE Empty)

_get_race_details(card, race, page) ==
    IF card.link /\ page # None /\ page[1].circuit # None
    THEN [ race EXCEPT !.circuit_name = clean_text(page[1].circuit[1]) ]
    ELSE race

\* the call site: db_manager.insert_race(detailed_race)
InsertRaceCallArgs(race) == << race >>

\* insert_race(season, round_number, race_name, circuit_name="", country="",
\* date=""): a call with fewer than 3 or more than 6 arguments is a TypeError
InsertRaceAccepts(args) == Len(args) >= 3 /\ Len(args) <= 6

BindRaceArgs(args) ==
    [ season |-> args[1], round_number |-> args[2], race_name |-> args[3],
      circuit_name |-> IF Len(args) >= 4 THEN args[4] ELSE Empty,
      country |-> IF Len(args) >= 5 THEN args[5] ELSE Empty,
      date |-> IF Len(args) >= 6 THEN args[6] ELSE Empty ]

scrape_season_races ==
    /\ sc.pc = "idle"
    /\ \E season \in Seasons :
         \E soup \in { None } \cup { Some(c) : c \in CardPages(RaceCards) } :
            sc' = IF soup = None THEN ReturnEmpty("scrape_season_races", season)
                  ELSE Begin("scrape_season_races", season,
                             FirstFoundAll(soup[1].primary, soup[1].fallback), 1)
    /\ UNCHANGED << drivers, teams, races, seq, now, call, gp, fn, conn >>

\* one iteration of `for i, card in enumerate(race_cards, 1)`
scrape_race_card ==
    /\ sc.pc = "loop" /\ sc.op = "scrape_season_races" /\ sc.i <= Len(sc.items)
    /\ \E exc \in BOOLEAN, page \in RacePages, fault \in BOOLEAN :
         LET card == sc.items[sc.i]
             race == _extract_race_from_card(card, sc.season, sc.i)
             detailed_race == _get_race_details(card, race, page)
             args == InsertRaceCallArgs(detailed_race)
             id == NextRowId(seq.races) IN
         IF exc
         THEN Except("build_raised", sc.out) /\ UNCHANGED << races, seq >>
         ELSE IF race.race_name = Empty
         THEN Continue("no_name", sc.out) /\ UNCHANGED << races, seq >>
         ELSE IF ~InsertRaceAccepts(args) \/ fault
         THEN /\ Except("save_raised", Append(sc.out, detailed_race))
              /\ UNCHANGED << races, seq >>
         ELSE /\ Continue("saved", Append(sc.out, detailed_race))
              /\ races' = InsertOrReplaceRace(races, id, BindRaceArgs(args), now)
              /\ seq' = [ seq EXCEPT !.races = id ]
    /\ UNCHANGED << drivers, teams, now, call, gp, fn, conn >>

(***************************************************************************)
(* Tables of results and standings.  A table is the list of its tr         *)
(* elements, a tr the list of the texts of its td/th cells.                *)
(***************************************************************************)
HeaderRow ==
    << << "P", "o", "s" >>, << "D", "r", "i", "v", "e", "r" >>, << "T", "e", "a", "m" >>,
       << "P", "t", "s" >> >>

\* the data row [1, Max Driver, Red Team, 25]
FourCellRow == << << "1" >>, MaxDriver, RedTeam, << "2", "5" >> >>

\* the same row with a laps cell before the points
FiveCellRow == << << "1" >>, MaxDriver, RedTeam, << "5", "7" >>, << "2", "5" >> >>

TwoCellRow == << << "2" >>, LandoDriver >>

LandoRow ==
    << << "2" >>, << "\n", " " >> \o LandoDriver \o << " " >>, BlueTeam, << "5", "7" >>,
       << "1", "8" >> >>

SevenCellRow ==
    << << "D", "N", "F" >>, MaxDriver, RedTeam, << "4", "4" >>, << "+", "1", " ", "l", "a", "p" >>,
       << "D", "N", "F" >>, << >> >>

\* a winner's row of a race that awarded half points
HalfPointsRow ==
    << << "1" >>, MaxDriver, RedTeam, << "5", "7" >>, << "1", "2", ".", "5" >> >>

TableRows ==
    { HeaderRow, FourCellRow, FiveCellRow, TwoCellRow, LandoRow, SevenCellRow, HalfPointsRow }

\* rows = table.find_all('tr')[1:]: the first tr is left out
FirstDataRowWithHeader == 2 - 1

FirstDataRow == 2

\* if len(cells) >= 5, in _scrape_single_race_results
MinResultCellsFour == 5 - 1

MinResultCells == 5

\* if len(cells) >= 3, in scrape_driver_standings
MinStandingsCells == 3

RaceResult(position, points, time, status, driver_id, team_id) ==
    [ race_id |-> 0, driver_id |-> driver_id, team_id |-> team_id,
      position |-> position, points |-> points, time |-> time, status |-> status ]

\* the RaceResult built from the cells of a row and the two lookups
BuildResult(cells, driver_data, team_data) ==
    RaceResult(parse_number(cells[1]),
               OrZero(parse_number(cells[Len(cells)])),
               IF Len(cells) > 5 THEN Some(clean_text(cells[5])) ELSE None,
               IF Len(cells) > 5
               THEN IF Len(cells) > 6 THEN clean_text(cells[6])
                    ELSE << "F", "i", "n", "i", "s", "h", "e", "d" >>
               ELSE Empty,
               IF driver_data # None THEN driver_data[1].driver_id ELSE 0,
               IF team_data # None THEN team_data[1].team_id ELSE 0)

\* a result is kept whenever its driver resolves
EmitsWithoutTeam(result) == result.driver_id # 0

\* if result.driver_id and result.team_id
Emits(result) == result.driver_id # 0 /\ result.team_id # 0

_scrape_single_race_results ==
    /\ sc.pc = "idle"
    /\ \E soup \in { None, Some(None) } \cup
                     { Some(Some(t)) : t \in ListsOf(TableRows, MaxItems) } :
         sc' = IF soup = None \/ soup[1] = None
               THEN ReturnEmpty("_scrape_single_race_results", 0)
               ELSE Begin("_scrape_single_race_results", 0, soup[1][1], FirstDataRow)
    /\ UNCHANGED << drivers, teams, races, seq, now, call, gp, fn, conn >>

\* one iteration of `for row in rows`
scrape_result_row ==
    /\ sc.pc = "loop" /\ sc.op = "_scrape_single_race_results" /\ sc.i <= Len(sc.items)
    /\ \E exc \in BOOLEAN :
         LET cells == sc.items[sc.i] IN
         IF exc THEN Except("build_raised", sc.out)
         ELSE IF Len(cells) >= MinResultCells
         THEN \E driver_data \in FetchOne(SelectDriverByName(drivers, clean_text(cells[2]))) :
              \E team_data \in FetchOne(SelectTeamByName(teams, clean_text(cells[3]))) :
                 LET result == BuildResult(cells, driver_data, team_data) IN
                 IF Emits(result) THEN Continue("emitted", Append(sc.out, result))
                 ELSE Continue("unresolved", sc.out)
         ELSE Continue("short", sc.out)
    /\ UNCHANGED << drivers, teams, races, seq, now, call, gp, fn, conn >>

(***************************************************************************)
(* DriversScraper.scrape_driver_standings.                                 *)
(***************************************************************************)
StandingsEntry(position, driver_name, points, season) ==
    [ position |-> position, driver_name |-> driver_name, points |-> points,
      season |-> season ]

\* a standings page, as the two table locators see it: the rows of its table
\* classed standings/results and of its div classed so, None where absent
StandingsPages ==
    { [ table |-> t, div |-> d ] :
        t \in { None } \cup { Some(r) : r \in ListsOf(TableRows, MaxItems) },
        d \in { None, Some(<< HeaderRow, LandoRow >>) } }

scrape_driver_standings ==
    /\ sc.pc = "idle"
    /\ \E season \in Seasons :
         \E soup \in { None } \cup { Some(p) : p \in StandingsPages } :
            LET table == IF soup = None THEN None
                         ELSE FirstFound(soup[1].table, soup[1].div) IN
            sc' = IF table = None
                  THEN ReturnEmpty("scrape_driver_standings", season)
                  ELSE Begin("scrape_driver_standings", season, table[1], FirstDataRow)
    /\ UNCHANGED << drivers, teams, races, seq, now, call, gp, fn, conn >>

\* one iteration of `for row in rows`
scrape_standings_row ==
    /\ sc.pc = "loop" /\ sc.op = "scrape_driver_standings" /\ sc.i <= Len(sc.items)
    /\ \E exc \in BOOLEAN :
         LET cells == sc.items[sc.i] IN
         IF exc THEN Except("build_raised", sc.out)
         ELSE IF Len(cells) >= MinStandingsCells
         THEN Continue("emitted",
                       Append(sc.out,
                              StandingsEntry(OrZero(parse_number(cells[1])),
                                             clean_text(cells[2]),
                                             OrZero(parse_number(cells[Len(cells)])),
                                             sc.season)))
         ELSE Continue("short", sc.out)
    /\ UNCHANGED << drivers, teams, races, seq, now, call, gp, fn, conn >>

\* the loop is over: return the list
scrape_return ==
    /\ sc.pc = "loop" /\ sc.i > Len(sc.items)
    /\ sc' = [ sc EXCEPT !.pc = "done" ]
    /\ UNCHANGED << drivers, teams, races, seq, now, call, gp, fn, conn >>

(***************************************************************************)
(* The stores a batch operation may start from: drivers upserted by        *)
(* earlier runs (two rows may share a name), teams of an existing file.    *)
(***************************************************************************)
DriverStores ==
    { {},
      { DriverRow(1, Driver(MaxDriver, Empty, RedTeam, 25), 0) },
      { DriverRow(1, Driver(MaxDriver, Empty, RedTeam, 25), 0),
        DriverRow(2, Driver(MaxDriver, Dutch, RedTeam, 25), 0) } }

InitScrape ==
    /\ drivers \in DriverStores
    /\ teams \in { {}, SeededTeams }
    /\ races = {}
    /\ seq = [ drivers |-> Cardinality(drivers), teams |-> Cardinality(teams), races |-> 0 ]
    /\ now = 0
    /\ call = NoCall
    /\ gp = GpIdle
    /\ sc = ScIdle
    /\ fn = FnIdle
    /\ conn = ConnIdle

NextScrape ==
    \/ scrape_all_drivers
    \/ scrape_driver_card
    \/ scrape_season_races
    \/ scrape_race_card
    \/ _scrape_single_race_results
    \/ scrape_result_row
    \/ scrape_driver_standings
    \/ scrape_standings_row
    \/ scrape_return

SpecScrape == InitScrape /\ [][NextScrape]_vars

\* the runs of scrape_season_races alone
NextRaces ==
    \/ scrape_season_races
    \/ scrape_race_card
    \/ scrape_return

SpecRaces == InitScrape /\ [][NextRaces]_vars

\* the items whose iteration has run, and those that ended in outcome o
VisitedItems == { sc.trace[k].item : k \in 1 .. Len(sc.trace) }

Ended(outcomes) == { k \in 1 .. Len(sc.trace) : sc.trace[k].outcome \in outcomes }

TableOps == { "_scrape_single_race_results", "scrape_driver_standings" }

UpsertOps == { "scrape_all_drivers", "scrape_season_races" }

FirstItem == IF sc.op \in TableOps THEN FirstDataRow ELSE 1

MinCells == IF sc.op = "scrape_driver_standings" THEN MinStandingsCells ELSE MinResultCells

StoreUnchanged == << drivers, teams, races >> = sc.store0

(***************************************************************************)
(* C4.  _scrape_single_race_results emits a RaceResult for a row only if   *)
(* a drivers row has the row's cleaned driver name and a teams row its     *)
(* cleaned team name; every emitted result carries the ids of stored       *)
(* rows, and the operation adds no row to any table.                       *)
(***************************************************************************)
C4_EmitOnlyResolved ==
    sc.op = "_scrape_single_race_results" =>
        /\ \A k \in Ended({ "emitted" }) :
             LET cells == sc.items[sc.trace[k].item] IN
             /\ SelectDriverByName(drivers, clean_text(cells[2])) # {}
             /\ SelectTeamByName(teams, clean_text(cells[3])) # {}
        /\ Len(sc.out) = Cardinality(Ended({ "emitted" }))
        /\ \A n \in 1 .. Len(sc.out) :
             /\ \E d \in drivers : d.driver_id = sc.out[n].driver_id
             /\ \E t \in teams : t.team_id = sc.out[n].team_id
        /\ StoreUnchanged

\* one row resolved and was emitted, another did not resolve and was dropped
C4_Witness ==
    /\ sc.op = "_scrape_single_race_results" /\ sc.pc = "done"
    /\ Ended({ "emitted" }) # {} /\ Ended({ "unresolved" }) # {}
    /\ Len(sc.out) = 1

(***************************************************************************)
(* C5.  As stated: header [Pos, Driver, Team, Pts] and the single data     *)
(* row [1, Max Driver, Red Team, 25], with driver Max Driver and team Red  *)
(* Team stored, give exactly one result with position 1, points 25 and     *)
(* the ids of the stored rows.                                             *)
(***************************************************************************)
Seeded ==
    /\ SelectDriverByName(drivers, MaxDriver) # {}
    /\ SelectTeamByName(teams, RedTeam) # {}

OneResultForMax ==
    /\ Len(sc.out) = 1
    /\ sc.out[1].position = Some(1)
    /\ sc.out[1].points = 25
    /\ \E d \in SelectDriverByName(drivers, MaxDriver) : sc.out[1].driver_id = d.driver_id
    /\ \E t \in SelectTeamByName(teams, RedTeam) : sc.out[1].team_id = t.team_id

Scenario(table) ==
    /\ sc.op = "_scrape_single_race_results" /\ sc.pc = "done"
    /\ sc.items = table
    /\ Ended({ "build_raised" }) = {}
    /\ Seeded

C6_ShortRowsSkipped ==
    sc.op \in TableOps =>
        /\ 1 \notin VisitedItems
        /\ ~sc.raised
        /\ Len(sc.out) = Cardinality(Ended({ "emitted" }))
        /\ \A k \in 1 .. Len(sc.trace) :
             LET cells == sc.items[sc.trace[k].item] IN
             IF Len(cells) < MinCells
             THEN sc.trace[k].outcome \in { "short", "build_raised" }
             ELSE sc.trace[k].outcome \in { "emitted", "unresolved", "build_raised" }
        /\ sc.pc = "done" => VisitedItems = 2 .. Len(sc.items)

\* a two-cell row was skipped and the well-formed row after it was emitted
C6_Witness ==
    /\ sc.op = "scrape_driver_standings" /\ sc.pc = "done"
    /\ sc.items = << FiveCellRow, TwoCellRow, LandoRow >>
    /\ sc.trace = << [ item |-> 2, outcome |-> "short" ], [ item |-> 3, outcome |-> "emitted" ] >>
    /\ Len(sc.out) = 1 /\ sc.out[1].driver_name = LandoDriver /\ sc.out[1].points = 18

(***************************************************************************)
(* C7.  An exception raised while one card or row is built is caught: the  *)
(* item adds nothing to the output, no exception leaves the batch          *)
(* operation, and when it returns every item has been visited.             *)
(***************************************************************************)
C7_ItemFailureIsolated ==
    /\ ~sc.raised
    /\ Len(sc.out) = Cardinality(Ended({ "emitted", "saved", "save_raised" }))
    /\ sc.pc = "done" => VisitedItems = FirstItem .. Len(sc.items)

\* the first card raised while it was built and the second was saved
C7_Witness ==
    /\ sc.op = "scrape_all_drivers" /\ sc.pc = "done" /\ Len(sc.trace) = 2
    /\ sc.trace[1].outcome = "build_raised" /\ sc.trace[2].outcome = "saved"
    /\ Len(sc.out) = 1 /\ drivers # sc.store0[1]

C9_ReturnedAreStored ==
    sc.pc = "done" =>
        /\ sc.op = "scrape_all_drivers" =>
             \A n \in 1 .. Len(sc.out) : DriverConflicts(drivers, sc.out[n]) # {}
        /\ sc.op = "scrape_season_races" =>
             \A n \in 1 .. Len(sc.out) : RaceConflicts(races, sc.out[n]) # {}

(***************************************************************************)
(* RacesScraper._parse_race_date.  A datetime is its year, month and day.  *)
(***************************************************************************)
\* [\/\-\.]
DateSeps == { "/", "-", "." }

AllDigits(s, i, j) == \A h \in i .. j : s[h] \in DigitChars

\* (\d{1,2})[\/\-\.](\d{1,2})[\/\-\.](\d{4}) matched at index p with groups of
\* n1 and n2 digits
FitsAt(s, p, n1, n2) ==
    /\ p + n1 + n2 + 5 <= Len(s)
    /\ AllDigits(s, p, p + n1 - 1)
    /\ s[p + n1] \in DateSeps
    /\ AllDigits(s, p + n1 + 1, p + n1 + n2)
    /\ s[p + n1 + n2 + 1] \in DateSeps
    /\ AllDigits(s, p + n1 + n2 + 2, p + n1 + n2 + 5)

NumericMatch(s, p, n1, n2) ==
    [ first |-> SubSeq(s, p, p + n1 - 1), sep1 |-> s[p + n1],
      second |-> SubSeq(s, p + n1 + 1, p + n1 + n2), sep2 |-> s[p + n1 + n2 + 1],
      year |-> SubSeq(s, p + n1 + n2 + 2, p + n1 + n2 + 5) ]

\* re.search of the first pattern: the leftmost match, None when there is none
\* (at one index at most one choice of group lengths fits)
SearchNumeric(s) ==
    LET hits == { p \in 1 .. Len(s) : \E n1, n2 \in 1 .. 2 : FitsAt(s, p, n1, n2) } IN
    IF hits = {} THEN None
    ELSE LET p == CHOOSE q \in hits : \A h \in hits : q <= h
             n == CHOOSE n \in (1 .. 2) \X (1 .. 2) : FitsAt(s, p, n[1], n[2])
         IN  Some(NumericMatch(s, p, n[1], n[2]))

DaysIn(month, year) ==
    IF month = 2
    THEN IF year % 4 = 0 /\ (year % 100 # 0 \/ year % 400 = 0) THEN 29 ELSE 28
    ELSE IF month \in { 4, 6, 9, 11 } THEN 30 ELSE 31

\* datetime(year, month, day) exists
ValidDate(year, month, day) ==
    /\ year >= 1 /\ month \in 1 .. 12 /\ day >= 1 /\ day <= DaysIn(month, year)

\* datetime.strptime(match.group(), fmt) for the two numeric formats, None for
\* ValueError: the separators of the text must be those of the format, %d
\* takes 1..31 and %m 1..12 in one or two digits, and the date must exist
strptime(m, fmt) ==
    LET dayFirst == fmt = "%d/%m/%Y"
        day == ToInt(IF dayFirst THEN m.first ELSE m.second)
        month == ToInt(IF dayFirst THEN m.second ELSE m.first)
        year == ToInt(m.year) IN
    IF m.sep1 = "/" /\ m.sep2 = "/" /\ ValidDate(year, month, day)
    THEN Some([ year |-> year, month |-> month, day |-> day ])
    ELSE None

\* a list that tries the month/day reading first
NumericFormatsMonthFirst == << "%m/%d/%Y", "%d/%m/%Y" >>

\* the formats of the first pattern, in the order they are tried
NumericFormats == << "%d/%m/%Y", "%m/%d/%Y" >>

\* for fmt in formats: the first format that parses
RECURSIVE FirstParsed(_, _)
FirstParsed(m, formats) ==
    IF formats = << >> THEN None
    ELSE IF strptime(m, Head(formats)) # None THEN strptime(m, Head(formats))
    ELSE FirstParsed(m, Tail(formats))

\* The second and third pattern need the name of a month, which the texts
\* tried here do not hold: after the first pattern nothing matches.
_parse_race_date(date_text) ==
    IF date_text = << >> THEN None
    ELSE LET date_str == clean_text(date_text)
             match == SearchNumeric(date_str) IN
         IF match # None THEN FirstParsed(match[1], NumericFormats) ELSE None

(***************************************************************************)
(* The text normalisers applied to arbitrary short texts.  A text is the   *)
(* list of its characters; None and "" are both the empty list, which the  *)
(* functions treat alike (`if not text`).                                  *)
(***************************************************************************)
\* the longest text tried
MaxLen == 5

CleanChars == { "a", " ", "\n", "\\", "n", "t" }

NumberChars == { "0", "1", ".", " ", "-", "sup2" }

Applied(op, arg, ret) == [ op |-> op, arg |-> arg, ret |-> ret ]

clean_text_call ==
    /\ fn.op = "none"
    /\ \E text \in ListsOf(CleanChars, MaxLen) :
         fn' = Applied("clean_text", text, clean_text(text))
    /\ UNCHANGED << drivers, teams, races, seq, now, call, gp, sc, conn >>

parse_number_call ==
    /\ fn.op = "none"
    /\ \E text \in ListsOf(NumberChars, MaxLen) :
         fn' = Applied("parse_number", text, parse_number(text))
    /\ UNCHANGED << drivers, teams, races, seq, now, call, gp, sc, conn >>

parse_points_call ==
    /\ fn.op = "none"
    /\ \E text \in ListsOf(NumberChars, MaxLen) :
         fn' = Applied("parse_points", text, parse_points(text))
    /\ UNCHANGED << drivers, teams, races, seq, now, call, gp, sc, conn >>

\* day and month numbers as written, and the texts built around them
DateNumbers ==
    { << "1" >>, << "0", "3" >>, << "1", "2" >>, << "1", "3" >>, << "3", "0" >>,
      << "3", "1" >>, << "2" >>, << "0" >>, << "3", "2" >> }

DateYears == { << "2", "0", "2", "4" >>, << "2", "0", "2", "3" >> }

DateTexts ==
    { pre \o a \o << s1 >> \o b \o << s2 >> \o y :
        pre \in { << >>, << " " >>, << "1" >> }, a \in DateNumbers, b \in DateNumbers,
        s1 \in { "/", "-" }, s2 \in { "/", "-" }, y \in DateYears }

_parse_race_date_call ==
    /\ fn.op = "none"
    /\ \E text \in DateTexts :
         fn' = Applied("_parse_race_date", text, _parse_race_date(text))
    /\ UNCHANGED << drivers, teams, races, seq, now, call, gp, sc, conn >>

\* the caller takes the result
helper_return ==
    /\ fn.op # "none"
    /\ fn' = FnIdle
    /\ UNCHANGED << drivers, teams, races, seq, now, call, gp, sc, conn >>

NextText ==
    \/ clean_text_call
    \/ parse_number_call
    \/ parse_points_call
    \/ _parse_race_date_call
    \/ helper_return

SpecText == InitFetch /\ [][NextText]_vars

(***************************************************************************)
(* C13.  For every input, literal backslash-n and backslash-t sequences    *)
(* included, clean_text returns a text with no two consecutive spaces and  *)
(* no leading or trailing whitespace; the empty input gives the empty      *)
(* text.                                                                   *)
(***************************************************************************)
C13_CleanTextNormalised ==
    fn.op = "clean_text" =>
      /\ \A i \in 1 .. Len(fn.ret) - 1 : ~(fn.ret[i] = " " /\ fn.ret[i + 1] = " ")
      /\ fn.ret # << >> =>
           fn.ret[1] \notin Whitespace /\ fn.ret[Len(fn.ret)] \notin Whitespace
      /\ fn.arg = << >> => fn.ret = << >>

(***************************************************************************)
(* C14.  parse_number returns None, never 0, for a text with no digit; for *)
(* a text with digits it returns the integer its digits spell in order.    *)
(***************************************************************************)
Decimals(text) == SelectSeq(text, LAMBDA c : c \in DigitChars)

C14_DigitsConcatenated ==
    fn.op = "parse_number" =>
      IF Decimals(fn.arg) = << >> THEN fn.ret = None
      ELSE fn.ret = Some(ToInt(Decimals(fn.arg)))

\* as C14, for the texts whose str.isdigit characters are all decimal digits;
\* a text holding a digit that is no decimal gives None
C14_DecimalDigitsConcatenated ==
    fn.op = "parse_number" =>
      IF \E i \in 1 .. Len(fn.arg) : fn.arg[i] \in IsDigitChars \ DigitChars
      THEN fn.ret = None
      ELSE IF Decimals(fn.arg) = << >> THEN fn.ret = None
      ELSE fn.ret = Some(ToInt(Decimals(fn.arg)))

C14_Witness ==
    /\ fn.op = "parse_number" /\ fn.arg = << "-", "1", ".", "0" >> /\ fn.ret = Some(10)

DriverFragments ==
    { [ heading |-> h, span |-> n, team |-> t, link |-> FALSE ] :
        h \in { None, Some(MaxDriver) },
        n \in { None, Some(Empty), Some(LandoDriver), Some(<< " " >> \o LandoDriver) },
        t \in { None, Some(RedTeam) } }

\* a race card: any h1..h4 is found, whatever its text
RaceFragments ==
    { [ heading |-> h, span |-> n, country |-> c, link |-> FALSE ] :
        h \in { None, Some(Empty), Some(<< " " >>), Some(MonacoGP) },
        n \in { None, Some(Empty), Some(Monaco) },
        c \in { None, Some(Monaco) } }

_extract_driver_from_card_call ==
    /\ fn.op = "none"
    /\ \E card \in DriverFragments :
         fn' = Applied("_extract_driver_from_card", card, _extract_driver_from_card(card))
    /\ UNCHANGED << drivers, teams, races, seq, now, call, gp, sc, conn >>

_extract_race_from_card_call ==
    /\ fn.op = "none"
    /\ \E card \in RaceFragments, season \in Seasons :
         fn' = Applied("_extract_race_from_card", card,
                       _extract_race_from_card(card, season, 1))
    /\ UNCHANGED << drivers, teams, races, seq, now, call, gp, sc, conn >>

\* the card list of scrape_all_drivers and of scrape_season_races
find_cards ==
    /\ fn.op = "none"
    /\ \E page \in CardPages(DriverCards) \cup CardPages(RaceCards) :
         fn' = Applied("find_cards", page, FirstFoundAll(page.primary, page.fallback))
    /\ UNCHANGED << drivers, teams, races, seq, now, call, gp, sc, conn >>

\* the table of scrape_driver_standings
find_standings_table ==
    /\ fn.op = "none"
    /\ \E page \in StandingsPages :
         fn' = Applied("find_standings_table", page, FirstFound(page.table, page.div))
    /\ UNCHANGED << drivers, teams, races, seq, now, call, gp, sc, conn >>

\* _extract_detailed_info on a fetched driver page, for a driver whose card
\* gave no nationality and no points
_extract_detailed_info_call ==
    /\ fn.op = "none"
    /\ \E page \in DriverPages \ { None } :
         fn' = Applied("_extract_detailed_info", page[1],
                       _extract_detailed_info(page[1], Driver(MaxDriver, Empty, RedTeam, 0)))
    /\ UNCHANGED << drivers, teams, races, seq, now, call, gp, sc, conn >>

NextExtract ==
    \/ _extract_driver_from_card_call
    \/ _extract_detailed_info_call
    \/ _extract_race_from_card_call
    \/ find_cards
    \/ find_standings_table
    \/ helper_return

SpecExtract == InitFetch /\ [][NextExtract]_vars

NameOps == { "_extract_driver_from_card", "_extract_race_from_card" }

\* the name field of an extracted entity
NameOf(entity) ==
    IF fn.op = "_extract_driver_from_card" THEN entity.name ELSE entity.race_name

(***************************************************************************)
(* C16.  In every locator chain (driver name, race name, card list,        *)
(* standings table), when the primary and the fallback locator both match, *)
(* the value extracted is the primary's match; the fallback is not used.   *)
(***************************************************************************)
C16_FirstMatchWins ==
    /\ (fn.op \in NameOps /\ fn.arg.heading # None /\ fn.arg.span # None) =>
         NameOf(fn.ret) = clean_text(fn.arg.heading[1])
    /\ (fn.op = "find_cards" /\ fn.arg.primary # << >> /\ fn.arg.fallback # << >>) =>
         fn.ret = fn.arg.primary
    /\ (fn.op = "find_standings_table" /\ fn.arg.table # None /\ fn.arg.div # None) =>
         fn.ret = fn.arg.table

\* a race card whose heading and name-classed span both match, with different texts
C16_Witness ==
    /\ fn.op = "_extract_race_from_card"
    /\ fn.arg.heading = Some(MonacoGP) /\ fn.arg.span = Some(Monaco)
    /\ fn.ret.race_name = MonacoGP

(***************************************************************************)
(* C17.  A locator chain returns the text of the first strategy whose      *)
(* match is not empty: when the primary locator matches an element with    *)
(* empty text and the fallback matches an element with text, the field is  *)
(* the fallback's text.                                                    *)
(***************************************************************************)
C17_FirstNonEmptyWins ==
    ( /\ fn.op \in NameOps
      /\ fn.arg.heading # None /\ clean_text(fn.arg.heading[1]) = Empty
      /\ fn.arg.span # None /\ clean_text(fn.arg.span[1]) # Empty ) =>
        NameOf(fn.ret) = clean_text(fn.arg.span[1])


(***************************************************************************)
(* C18.  get_current_standings(season) returns, without raising, the       *)
(* standings entries of the season whose driver_id and team_id match a     *)
(* stored driver and team, each with the two names joined in, ordered by   *)
(* position; an entry whose driver or team is missing is left out.         *)
(***************************************************************************)
\* the rows of table standings: no operation of the program stores one
StandingsRows == {}

\* FROM standings s JOIN drivers d ON ... JOIN teams t ON ... WHERE s.season = ?
JoinedStandings(season) ==
    { [ position |-> s.position, driver_id |-> s.driver_id, team_id |-> s.team_id,
        season |-> s.season, driver_name |-> d.name, team_name |-> t.name ] :
        s \in { x \in StandingsRows : x.season = season },
        d \in { x \in drivers : \E y \in StandingsRows : y.driver_id = x.driver_id },
        t \in { x \in teams : \E y \in StandingsRows : y.team_id = x.team_id } }

C18_StandingsJoined ==
    call.op = "get_current_standings" =>
      /\ ~call.raised
      /\ call.ret \in FetchAll({ j \in JoinedStandings(call.arg) :
                                   /\ \E d \in drivers :
                                        d.driver_id = j.driver_id /\ d.name = j.driver_name
                                   /\ \E t \in teams :
                                        t.team_id = j.team_id /\ t.name = j.team_name },
                                "position", "ASC")

(***************************************************************************)
(* DatabaseManager.cleanup_old_data(days).  The clock counts days;         *)
(* call.replaced holds the rows the sweep deleted.                         *)
(***************************************************************************)
\* created_at < datetime('now', '-{} days')
OlderThan(row, days) == row.created_at < now - days

cleanup_old_data ==
    /\ \E days \in 0 .. MaxTime :
         LET old == { r \in races : OlderThan(r, days) } IN
         /\ races' = races \ old
         /\ call' = Call("cleanup_old_data", days, FALSE, None, old)
    /\ UNCHANGED << drivers, teams, seq, now, gp, sc, fn, conn >>

(***************************************************************************)
(* DatabaseManager.insert_team.  A Team is the record of the fields its    *)
(* dataclass declares.                                                     *)
(***************************************************************************)
Team(name) ==
    [ team_id |-> None, name |-> name, base |-> Empty, team_chief |-> Empty,
      technical_chief |-> Empty, chassis |-> Empty, power_unit |-> Empty,
      first_team_entry |-> None, world_championships |-> 0,
      highest_race_finish |-> Empty, pole_positions |-> 0, fastest_laps |-> 0,
      created_at |-> None, updated_at |-> None ]

TeamInputs == { Team(name) : name \in TeamNames \cup { Empty } }

\* obj.attr raises AttributeError unless the object has the field
HasAttr(obj, attr) == attr \in DOMAIN obj

TeamConflicts(tbl, name) == { r \in tbl : r.name = name }

\* INSERT OR REPLACE INTO teams (name, points, updated_at)
InsertOrReplaceTeam(tbl, id, name, points, t) ==
    (tbl \ TeamConflicts(tbl, name)) \cup { TeamRow(id, name, points, t) }

\* The parameters (team.name, team.points, datetime.now()) are evaluated
\* before execute is called: without a field points nothing reaches the store.
insert_team ==
    /\ \E team \in TeamInputs :
         IF ~(HasAttr(team, "name") /\ HasAttr(team, "points"))
         THEN /\ call' = Call("insert_team", team, TRUE, None, {})
              /\ UNCHANGED << teams, seq >>
         ELSE LET id == NextRowId(seq.teams) IN
              /\ teams' = InsertOrReplaceTeam(teams, id, team.name, team.points, now)
              /\ seq' = [ seq EXCEPT !.teams = id ]
              /\ call' = Call("insert_team", team, FALSE, Some(id),
                              TeamConflicts(teams, team.name))
    /\ UNCHANGED << drivers, races, now, gp, sc, fn, conn >>

NextCleanup ==
    \/ insert_driver
    \/ insert_team
    \/ insert_race
    \/ Tick
    \/ cleanup_old_data

SpecCleanup == InitDB /\ [][NextCleanup]_vars

(***************************************************************************)
(* C19.  After cleanup_old_data(days) no stored row of drivers, teams or   *)
(* races has a created_at older than `days` days, and every row deleted    *)
(* was older than that: rows created within the last `days` days are all   *)
(* still there.                                                            *)
(***************************************************************************)
C19_RetentionSweep ==
    call.op = "cleanup_old_data" =>
      /\ \A r \in drivers : r.created_at >= call.at - call.arg
      /\ \A r \in teams : r.created_at >= call.at - call.arg
      /\ \A r \in races : r.created_at >= call.at - call.arg
      /\ \A r \in call.replaced : r.created_at < call.at - call.arg


(***************************************************************************)
(* C20.  For a text d1/d2/yyyy of which the day/month and the month/day    *)
(* reading are both dates of the calendar, _parse_race_date returns the    *)
(* day/month reading (day d1, month d2); it returns the month/day reading  *)
(* only where the day/month reading is no date.                            *)
(***************************************************************************)
C20_DayMonthFirst ==
    fn.op = "_parse_race_date" =>
      \A a \in DateNumbers, b \in DateNumbers, y \in DateYears :
        fn.arg = a \o << "/" >> \o b \o << "/" >> \o y =>
          LET d1 == ToInt(a)
              d2 == ToInt(b)
              dayMonth == [ year |-> ToInt(y), month |-> d2, day |-> d1 ]
              monthDay == [ year |-> ToInt(y), month |-> d1, day |-> d2 ]
              IsDate(d) == /\ d.month \in 1 .. 12
                           /\ d.day \in 1 .. DaysIn(d.month, d.year) IN
          /\ IsDate(dayMonth) => fn.ret = Some(dayMonth)
          /\ (~IsDate(dayMonth) /\ IsDate(monthDay)) => fn.ret = Some(monthDay)
          /\ (~IsDate(dayMonth) /\ ~IsDate(monthDay)) => fn.ret = None

\* 03/12/2024 reads as 3 December, though 12 March is a date as well
C20_Witness ==
    /\ fn.op = "_parse_race_date"
    /\ fn.arg = << "0", "3", "/", "1", "2", "/", "2", "0", "2", "4" >>
    /\ fn.ret = Some([ year |-> 2024, month |-> 12, day |-> 3 ])


(***************************************************************************)
(* DatabaseManager.get_connection, the context manager every operation     *)
(* runs its statements in:                                                 *)
(*     conn = sqlite3.connect(...); try: yield conn; finally: conn.close() *)
(***************************************************************************)
\* the operations of one run that are followed
MaxCalls == 2

\* the methods whose body is `with self.get_connection() as conn:`
ConnOps ==
    { "_create_tables", "insert_driver", "insert_team", "insert_race",
      "get_driver_by_name", "get_team_by_name", "get_all_drivers", "get_all_teams",
      "get_races_by_season", "get_current_standings", "update_driver_points",
      "update_team_points", "get_drivers_by_team", "cleanup_old_data" }

\* whether the statements under `with` may raise: insert_team reads team.points,
\* which Team does not have, and get_current_standings names a table that does
\* not exist, so these always do; any other may (sqlite3.Error) or may not
BodyRaises(op) ==
    IF op \in { "insert_team", "get_current_standings" } THEN { TRUE } ELSE BOOLEAN

\* a context manager that closes only after a body that did not raise
CloseUnlessRaised(c) ==
    IF c.raised THEN [ c EXCEPT !.pc = "done" ]
    ELSE [ c EXCEPT !.pc = "done", !.open = @ - 1 ]

\* finally: conn.close()
Finally(c) == [ c EXCEPT !.pc = "done", !.open = @ - 1 ]

\* conn = sqlite3.connect(self.db_path), which may raise before anything is open
get_connection ==
    /\ conn.pc = "idle" /\ conn.calls < MaxCalls
    /\ \E op \in ConnOps, connected \in BOOLEAN :
         conn' = IF connected
                 THEN [ conn EXCEPT !.pc = "body", !.op = op, !.opened = TRUE,
                                    !.raised = FALSE, !.open = @ + 1 ]
                 ELSE [ conn EXCEPT !.pc = "done", !.op = op, !.opened = FALSE,
                                    !.raised = TRUE ]
    /\ UNCHANGED << drivers, teams, races, seq, now, call, gp, sc, fn >>

\* the statements under `with`: they return or raise
with_body ==
    /\ conn.pc = "body"
    /\ \E raises \in BodyRaises(conn.op) :
         conn' = [ conn EXCEPT !.pc = "finally", !.raised = raises ]
    /\ UNCHANGED << drivers, teams, races, seq, now, call, gp, sc, fn >>

get_connection_exit ==
    /\ conn.pc = "finally"
    /\ conn' = Finally(conn)
    /\ UNCHANGED << drivers, teams, races, seq, now, call, gp, sc, fn >>

\* the operation returns, or its exception propagates, to the caller
operation_return ==
    /\ conn.pc = "done"
    /\ conn' = [ conn EXCEPT !.pc = "idle", !.calls = @ + 1 ]
    /\ UNCHANGED << drivers, teams, races, seq, now, call, gp, sc, fn >>

NextConn ==
    \/ get_connection
    \/ with_body
    \/ get_connection_exit
    \/ operation_return

SpecConn == InitDB /\ [][NextConn]_vars

(***************************************************************************)
(* C21.  Every DatabaseManager operation opens its own connection and      *)
(* closes it before it returns or lets an exception through: between two   *)
(* operations no connection is open, also after an operation that failed.  *)
(***************************************************************************)
C21_ConnectionsReleased ==
    /\ conn.open \in { 0, 1 }
    /\ conn.pc \in { "idle", "done" } => conn.open = 0
    /\ conn.pc \in { "body", "finally" } => conn.open = 1

\* the second operation connected and then raised; nothing is left open
C21_Witness ==
    /\ conn.pc = "idle" /\ conn.calls = 2
    /\ conn.opened /\ conn.raised /\ conn.open = 0


(***************************************************************************)
(* C22.  insert_team, applied to any Team record, completes without error, *)
(* leaves exactly one teams row whose name is the team's name and returns  *)
(* the team_id of that row.                                                *)
(***************************************************************************)
C22_TeamUpsert ==
    call.op = "insert_team" =>
      /\ ~call.raised
      /\ Cardinality(TeamConflicts(teams, call.arg.name)) = 1
      /\ \A r \in TeamConflicts(teams, call.arg.name) : call.ret = Some(r.team_id)


(***************************************************************************)
(* Runs of scrape_all_drivers one after the other on one store, from an    *)
(* empty database.                                                         *)
(***************************************************************************)
\* the operation has returned; the next run may start
next_run ==
    /\ sc.pc = "done" /\ Inserted < MaxInserts
    /\ sc' = ScIdle
    /\ UNCHANGED << drivers, teams, races, seq, now, call, gp, fn, conn >>

NextRerun ==
    \/ scrape_all_drivers
    \/ scrape_driver_card
    \/ scrape_return
    \/ next_run

InitRerun == InitScrape /\ drivers = {} /\ teams = {}

SpecRerun == InitRerun /\ [][NextRerun]_vars

(***************************************************************************)
(* C23.  However often scrape_all_drivers runs over the same driver cards, *)
(* and whether or not the detail page of a driver is fetched in a run, the *)
(* store holds exactly one drivers row for each driver a run has saved.    *)
(***************************************************************************)
C23_OneRowPerDriver ==
    (sc.op = "scrape_all_drivers" /\ sc.pc = "done") =>
      \A k \in Ended({ "saved" }) :
        LET card == sc.items[sc.trace[k].item] IN
        Cardinality(SelectDriverByName(drivers, _extract_driver_from_card(card).name)) = 1


(***************************************************************************)
(* _scrape_single_race_results on a store that holds the race, stored by   *)
(* insert_race(2024, 1, "Monaco", ...), and the teams of an existing file. *)
(***************************************************************************)
SeededRaces == { RaceRow(1, RaceArgs(2024, 1, MonacoGP, Monaco), 0) }

InitResults ==
    /\ drivers \in DriverStores
    /\ teams = SeededTeams
    /\ races = SeededRaces
    /\ seq = [ drivers |-> Cardinality(drivers), teams |-> Cardinality(teams),
               races |-> Cardinality(races) ]
    /\ now = 0
    /\ call = NoCall
    /\ gp = GpIdle
    /\ sc = ScIdle
    /\ fn = FnIdle
    /\ conn = ConnIdle

NextResults ==
    \/ _scrape_single_race_results
    \/ scrape_result_row
    \/ scrape_return

SpecResults == InitResults /\ [][NextResults]_vars

(***************************************************************************)
(* C24.  Every RaceResult emitted carries a race_id that is the id of a    *)
(* stored races row, the race its results page belongs to.                 *)
(***************************************************************************)
C24_ResultRaceId ==
    sc.op = "_scrape_single_race_results" =>
      \A n \in 1 .. Len(sc.out) : \E r \in races : r.race_id = sc.out[n].race_id

(***************************************************************************)
(* C25.  The career statistics of a driver page are looked for inside its  *)
(* statistics block when it has one, and in the whole document when it has *)
(* none: a Points entry of the block, or of a page without a block, is the *)
(* driver's points.                                                        *)
(***************************************************************************)
C25_StatisticsScope ==
    fn.op = "_extract_detailed_info" =>
      LET soup == fn.arg
          found == IF soup.stats # None THEN soup.stats[1].points ELSE soup.body IN
      fn.ret.points = IF found # None THEN OrZero(parse_number(found[1])) ELSE 0

(***************************************************************************)
(* C26.  The points of every race result and of every standings entry are  *)
(* the first decimal-like number of the points cell of a row of the table, *)
(* truncated to an integer, and 0 when the cell holds no number.           *)
(***************************************************************************)
C26_RowPointsTruncated ==
    sc.op \in { "_scrape_single_race_results", "scrape_driver_standings" } =>
      \A n \in 1 .. Len(sc.out) :
         \E k \in FirstDataRow .. Len(sc.items) :
            LET cells == sc.items[k] IN
            /\ Len(cells) >= MinStandingsCells
            /\ sc.out[n].points = parse_points(cells[Len(cells)])

(***************************************************************************)
(* C27.  A text that is a date of the calendar written day, month, year    *)
(* with one of the separators of the numeric pattern ("/" or "-" here),    *)
(* is parsed: _parse_race_date returns that date, and None is returned     *)
(* only for a text whose numbers are no date.                              *)
(***************************************************************************)
C27_EveryShapeParsed ==
    fn.op = "_parse_race_date" =>
      \A a \in DateNumbers, b \in DateNumbers, y \in DateYears, sep \in { "/", "-" } :
        (/\ fn.arg = a \o << sep >> \o b \o << sep >> \o y
         /\ ToInt(b) \in 1 .. 12
         /\ ToInt(a) \in 1 .. DaysIn(ToInt(b), ToInt(y)))
        => fn.ret = Some([ year |-> ToInt(y), month |-> ToInt(b), day |-> ToInt(a) ])

(***************************************************************************)
(* C28.  No step changes the id of a stored driver or race: an id that     *)
(* names a row of a driver (a race) names a row of the same driver (race)  *)
(* after the step, whatever upserts the step makes.                        *)
(***************************************************************************)
C28_IdsStable ==
    [][ /\ \A r \in drivers :
             \E q \in drivers' : q.driver_id = r.driver_id /\ DriverKey(q) = DriverKey(r)
        /\ \A r \in races :
             \E q \in races' : q.race_id = r.race_id /\ RaceKey(q) = RaceKey(r) ]_vars

(***************************************************************************)
(* C29.  No step changes the created_at of a stored driver or race: the    *)
(* row a key has after an upsert keeps the created_at the key's row had    *)
(* before it, so the age cleanup_old_data compares counts from the first   *)
(* insertion.                                                              *)
(***************************************************************************)
C29_CreatedAtKept ==
    [][ /\ \A r \in drivers : \A q \in drivers' :
             DriverKey(q) = DriverKey(r) => q.created_at = r.created_at
        /\ \A r \in races : \A q \in races' :
             RaceKey(q) = RaceKey(r) => q.created_at = r.created_at ]_vars

(***************************************************************************)
(* The operations the entry points of F1ScrapingManager call, one after    *)
(* the other on one store: scrape_all_data runs scrape_all_drivers,        *)
(* scrape_season_races, scrape_driver_standings and scrape_race_results,   *)
(* scrape_drivers_only and scrape_races_only two of them each.  The store  *)
(* is empty at first.  scrape_race_results extends its list by what        *)
(* _scrape_single_race_results returns for each results page.              *)
(***************************************************************************)
InitPipeline == InitScrape /\ drivers = {} /\ teams = {}

NextPipeline ==
    \/ NextScrape
    \/ next_run

SpecPipeline == InitPipeline /\ [][NextPipeline]_vars

(***************************************************************************)
(* C30.  No step of an entry point changes the teams table, and in a store *)
(* without team rows the list of race results stays empty, whatever the    *)
(* results page holds and whatever drivers earlier operations stored.      *)
(***************************************************************************)
C30_TeamsNeverWritten ==
    /\ [][teams' = teams]_vars
    /\ [](teams = {} /\ sc.op = "_scrape_single_race_results" => sc.out = << >>)

\* Max Driver was stored by an earlier operation, the results page has his
\* five-cell row, and the list returned is empty
C30_Witness ==
    /\ teams = {}
    /\ sc.op = "_scrape_single_race_results" /\ sc.pc = "done"
    /\ SelectDriverByName(drivers, MaxDriver) # {}
    /\ sc.items = << HeaderRow, FiveCellRow >>
    /\ sc.trace = << [ item |-> 2, outcome |-> "unresolved" ] >>
    /\ sc.out = << >>

=============================================================================
